---- MODULE Spec2Model ----
(***************************************************************************)
(* Request queue and auto-fill coordination of the DJ request system       *)
(* (server.js).  Every SQL statement the server issues is one atomic step  *)
(* of the embedded database; a handler is a chain of such steps, and the   *)
(* steps of different handlers interleave.  Statements that the code       *)
(* issues without waiting for them (db.run with no awaited callback) sit   *)
(* in `pending` until the database executes them: outside db.serialize     *)
(* (used at server.js:56-135 for table creation only) the driver gives no  *)
(* order between statements in flight.                                     *)
(***************************************************************************)
EXTENDS Integers, Sequences, FiniteSets, TLC

VARIABLES
  up,               \* the node process is running
  authorization,    \* Authorization header the admin's client sends
  now,              \* wall clock, seconds since a UTC midnight
  queue,            \* table queue: rows [id, song_id, requested_at, played]
  nextId,           \* AUTOINCREMENT counter of queue
  recently_played,  \* table recently_played: rows [id, song_id, played_at]
  rpNextId,         \* AUTOINCREMENT counter of recently_played
  user_cooldowns,   \* table user_cooldowns: ip_address -> last_request | NoRow
  user_requests,    \* table user_requests: rows [ip_address, queue_id]
  settings,         \* table settings: set of rows [id, explicit_allowed]
  default_playlist, \* table default_playlist: rows [id, song_id]
  dpNextId,         \* AUTOINCREMENT counter of default_playlist
  pending,          \* statements issued and not yet executed
  req,              \* POST /api/request handlers in flight: [pc, ip, song, at]
  af,               \* the autoFillQueue invocation in flight
  adm,              \* the POST /api/played/:queueId handler in flight
  reply,            \* HTTP response sent by the last step
  emit,             \* socket.io events emitted by the last step
  listing,          \* rows of the last GET /api/queue response
  auto_playlist_queue, \* table auto_playlist_queue: rows [id, song_id, queue_position]
  apNextId,         \* next rowid of auto_playlist_queue
  gen,              \* POST /api/auto-playlist/generate handlers in flight
  rem,              \* the DELETE /api/auto-playlist/:id handler in flight
  download_queue,   \* table download_queue: rows [id, title, artist, status]
  dqNextId,         \* next rowid of download_queue
  bulk,             \* the POST /api/download-queue/bulk handler in flight
  counts            \* counts in the body of the response sent by the last step

vars == <<up, authorization, now, queue, nextId, recently_played, rpNextId,
          user_cooldowns,
          user_requests, settings, default_playlist, dpNextId, pending,
          req, af, adm, reply, emit, listing, auto_playlist_queue, apNextId,
          gen, rem, download_queue, dqNextId, bulk, counts>>

\* the state of the library endpoints
variant == <<auto_playlist_queue, apNextId, gen, rem, download_queue, dqNextId,
             bulk, counts>>

tables == <<queue, nextId, recently_played, rpNextId, user_cooldowns,
            user_requests, settings, default_playlist, dpNextId>>

-----------------------------------------------------------------------------
(* Bounds of the model *)

MaxQueueId == 2
MaxPlayedId == 1
MaxPlaylistId == 2
MaxCapQueueId == 6
MaxMarks == 2
MaxLibrary == 6
MaxAutoId == 6
MinAutoRows == 4
MaxBatch == 2
MaxDownloadId == 3

Handlers == {"h1", "h2"}
Ips == {"ip1", "ip2"}
Songs == {"s1", "s2"}
\* the songs requested in the quota scenario (s1..s4 are queued at startup)
CapSongs == {"s4", "s5", "s6"}
ExplicitSongs == {"s2"}

-----------------------------------------------------------------------------
(* Time and the two timestamp formats *)

DaySeconds == 24 * 60 * 60
HourSeconds == 60 * 60
CooldownSeconds == 30
MaxUserRequests == 5

\* character codes of the separator between date and time of day
SpaceChar == 32
TChar == 84

\* SQLite CURRENT_TIMESTAMP: 'YYYY-MM-DD HH:MM:SS' (UTC, whole seconds)
CurrentTimestamp(t) == <<t \div DaySeconds, SpaceChar, t % DaySeconds>>

\* Date.prototype.toISOString: 'YYYY-MM-DDTHH:MM:SS.sssZ'
toISOString(t) == <<t \div DaySeconds, TChar, t % DaySeconds>>

\* new Date(isoString): the instant an ISO string names
ParseDate(str) == str[1] * DaySeconds + str[3]

\* SQLite comparison of two TEXT values (BINARY collation: bytewise)
TextLess(a, b) ==
  \/ a[1] < b[1]
  \/ a[1] = b[1] /\ a[2] < b[2]
  \/ a[1] = b[1] /\ a[2] = b[2] /\ a[3] < b[3]

TextLeq(a, b) == a = b \/ TextLess(a, b)

-----------------------------------------------------------------------------
(* Values *)

NoRow == <<>>
NoSong == [id |-> "", title |-> "", artist |-> "", explicit |-> FALSE]
Song(s) == [id |-> s, title |-> "t", artist |-> "a", explicit |-> s \in ExplicitSongs]
\* a request body whose song lacks its title
Untitled(s) == [id |-> s, title |-> "", artist |-> "a", explicit |-> FALSE]

\* a response: the handler it ends ("admin" for the admin and query
\* endpoints), the HTTP status, the error text and the queueId of a success
\* the rejections of POST /api/request
RejectionKinds ==
  {"QuotaExceeded", "CooldownActive", "DuplicateInQueue", "RecentlyPlayed"}

\* a variant that answers both song rejections with one text
RejectionMerged(kind) ==
  CASE kind = "QuotaExceeded" ->
         [status |-> 429, error |-> "You can only have 5 songs in the queue at once"]
    [] kind = "CooldownActive" ->
         [status |-> 429, error |-> "Please wait 30 seconds between requests"]
    [] kind = "DuplicateInQueue" ->
         [status |-> 409, error |-> "This song is already in the queue"]
    [] kind = "RecentlyPlayed" ->
         [status |-> 409, error |-> "This song is already in the queue"]

\* the status and the error text that res.status(...).json({ error }) sends
\* for each kind
Rejection(kind) ==
  CASE kind = "QuotaExceeded" ->
         [status |-> 429, error |-> "You can only have 5 songs in the queue at once"]
    [] kind = "CooldownActive" ->
         [status |-> 429, error |-> "Please wait 30 seconds between requests"]
    [] kind = "DuplicateInQueue" ->
         [status |-> 409, error |-> "This song is already in the queue"]
    [] kind = "RecentlyPlayed" ->
         [status |-> 409, error |-> "This song was played recently"]

\* Authorization headers: none, or the scheme followed by the credentials
\* "username:password" that the header carries in base64
NoAuthorization == <<>>
Basic(username, password) == <<"Basic", <<username, password>>>>

ADMIN_PASSWORD == "22706"

\* the headers a client may send
Authorizations ==
  {NoAuthorization, Basic("admin", ADMIN_PASSWORD), Basic("admin", "0000")}

\* the check of the middleware requireAuth: a header is present and the
\* password after the colon of its decoded credentials is ADMIN_PASSWORD
requireAuth(auth) ==
  /\ auth # NoAuthorization
  /\ auth[2][2] = ADMIN_PASSWORD

NoReply == [to |-> "", status |-> 0, error |-> "", queueId |-> 0]
Reply(h, st, msg) == [to |-> h, status |-> st, error |-> msg, queueId |-> 0]
Accepted(h, id) == [to |-> h, status |-> 200, error |-> "", queueId |-> id]

IdleReq == [pc |-> "idle", ip |-> "", song |-> NoSong, at |-> 0]
IdleAf == [pc |-> "idle", recent |-> {}, song |-> ""]
Rejected(h, kind) == Reply(h, Rejection(kind).status, Rejection(kind).error)
IdleGen == [pc |-> "idle", theme |-> "", count |-> 0, todo |-> {}, added |-> 0]
IdleRem == [pc |-> "idle"]
IdleBulk == [pc |-> "idle", songs |-> <<>>, lookups |-> {}, inserts |-> {},
             added |-> 0, skipped |-> 0]
\* the counts of a response body, -1 for a key the body does not have
NoCounts == [added |-> -1, skipped |-> -1, total |-> -1, cleared |-> -1]
IdleAdm == [pc |-> "idle", id |-> 0, song |-> ""]

Stmt(op, ip, qid, at) == [op |-> op, ip |-> ip, qid |-> qid, at |-> at]

-----------------------------------------------------------------------------
(* Queries *)

Pending == {r \in queue : ~r.played}

\* SELECT COUNT(*) FROM user_requests ur JOIN queue q ON ur.queue_id = q.id
\*   WHERE ur.ip_address = ? AND q.played = 0
UserCount(ip) ==
  Cardinality({u \in user_requests :
                 /\ u.ip_address = ip
                 /\ \E q \in Pending : q.id = u.queue_id})

\* SELECT id FROM queue WHERE song_id = ? AND played = 0
InQueue(s) == \E q \in Pending : q.song_id = s

\* SELECT id FROM recently_played WHERE song_id = ?
RecentlyPlayed(s) == \E r \in recently_played : r.song_id = s

\* settings row 1
ExplicitAllowed == \E s \in settings : s.id = 1 /\ s.explicit_allowed

InFlight ==
  Cardinality({h \in Handlers : req[h].pc # "idle"})
    + (IF af.pc = "idle" THEN 0 ELSE 1)

-----------------------------------------------------------------------------
Init ==
  /\ up = TRUE
  /\ authorization = NoAuthorization
  /\ now = DaySeconds + 12 * HourSeconds   \* noon of the second day
  /\ queue = {}
  /\ nextId = 1
  /\ recently_played = {}
  /\ rpNextId = 1
  /\ user_cooldowns = [i \in Ips |-> NoRow]
  /\ user_requests = {}
  /\ settings = {[id |-> 1, explicit_allowed |-> TRUE]}
  /\ default_playlist = {}
  /\ dpNextId = 1
  /\ pending = {}
  /\ req = [h \in Handlers |-> IdleReq]
  /\ af = IdleAf
  /\ adm = IdleAdm
  /\ reply = NoReply
  /\ emit = {}
  /\ listing = <<>>
  /\ auto_playlist_queue = {}
  /\ apNextId = 1
  /\ gen = [h \in Handlers |-> IdleGen]
  /\ rem = IdleRem
  /\ download_queue = {}
  /\ dqNextId = 1
  /\ bulk = IdleBulk
  /\ counts = NoCounts

(* Fire-and-forget statements *)

\* cleanRecentlyPlayed(): db.run('DELETE FROM recently_played WHERE played_at < ?')
\* with the bound ISO string of one hour ago; nothing waits for it.
cleanRecentlyPlayed == Stmt("purge", "", 0, toISOString(now - HourSeconds))

\* the rows DELETE FROM recently_played WHERE played_at < cutoff leaves
Purged(cutoff) == {r \in recently_played : ~TextLess(r.played_at, cutoff)}

\* the database executes one statement that nothing waits for
ExecPending(st) ==
  /\ st \in pending
  /\ pending' = pending \ {st}
  /\ CASE st.op = "purge" ->
            /\ recently_played' = Purged(st.at)
            /\ UNCHANGED <<user_requests, user_cooldowns>>
       [] st.op = "track" ->
            /\ user_requests' = user_requests \cup
                                  {[ip_address |-> st.ip, queue_id |-> st.qid]}
            /\ UNCHANGED <<recently_played, user_cooldowns>>
       [] st.op = "cooldown" ->
            /\ user_cooldowns' = [user_cooldowns EXCEPT ![st.ip] = st.at]
            /\ UNCHANGED <<recently_played, user_requests>>
  /\ reply' = NoReply
  /\ emit' = {}
  /\ UNCHANGED <<variant, up, authorization, now, queue, nextId, rpNextId, settings, default_playlist,
                 dpNextId, req, af, adm, listing>>

\* setInterval(cleanRecentlyPlayed, 5 * 60 * 1000)
CleanupTimer ==
  /\ cleanRecentlyPlayed \notin pending
  /\ pending' = pending \cup {cleanRecentlyPlayed}
  /\ reply' = NoReply
  /\ emit' = {}
  /\ UNCHANGED <<variant, up, authorization, now, tables, req, af, adm, listing>>

\* the wall clock moves on to instant t
Tick(t) ==
  /\ t > now
  /\ now' = t
  /\ reply' = NoReply
  /\ emit' = {}
  /\ UNCHANGED <<variant, up, authorization, tables, pending, req, af, adm, listing>>

-----------------------------------------------------------------------------
(* POST /api/request *)

\* SubmitStart that does not look at the artist
SubmitStartLax(h, ip, body) ==
  /\ req[h].pc = "idle"
  /\ IF body.id = "" \/ body.title = ""
       THEN /\ reply' = Reply(h, 400, "Invalid song data")
            /\ req' = [req EXCEPT ![h] = IdleReq]
       ELSE /\ reply' = NoReply
            /\ req' = [req EXCEPT ![h] = [pc |-> "cap", ip |-> ip, song |-> body,
                                            at |-> now]]
  /\ emit' = {}
  /\ UNCHANGED <<variant, up, authorization, now, tables, pending, af, adm, listing>>

\* the handler validates the body and issues the count query
SubmitStart(h, ip, body) ==
  /\ req[h].pc = "idle"
  /\ IF body.id = "" \/ body.title = "" \/ body.artist = ""
       THEN /\ reply' = Reply(h, 400, "Invalid song data")
            /\ req' = [req EXCEPT ![h] = IdleReq]
       ELSE /\ reply' = NoReply
            /\ req' = [req EXCEPT ![h] = [pc |-> "cap", ip |-> ip, song |-> body,
                                            at |-> now]]
  /\ emit' = {}
  /\ UNCHANGED <<variant, up, authorization, now, tables, pending, af, adm, listing>>

Finish(h, r) ==
  /\ reply' = r
  /\ req' = [req EXCEPT ![h] = IdleReq]

Goto(h, pc) ==
  /\ req' = [req EXCEPT ![h].pc = pc]
  /\ reply' = NoReply

\* SubmitCap rejecting only above the cap
SubmitCapOffByOne(h) ==
  /\ req[h].pc = "cap"
  /\ IF UserCount(req[h].ip) > MaxUserRequests
       THEN Finish(h, Rejected(h, "QuotaExceeded"))
       ELSE Goto(h, "cooldown")
  /\ emit' = {}
  /\ UNCHANGED <<variant, up, authorization, now, tables, pending, af, adm, listing>>

\* max 5 songs in queue per user
SubmitCap(h) ==
  /\ req[h].pc = "cap"
  /\ IF UserCount(req[h].ip) >= MaxUserRequests
       THEN Finish(h, Rejected(h, "QuotaExceeded"))
       ELSE Goto(h, "cooldown")
  /\ emit' = {}
  /\ UNCHANGED <<variant, up, authorization, now, tables, pending, af, adm, listing>>

\* checkCooldown(ipAddress)
checkCooldown(ip) ==
  IF user_cooldowns[ip] = NoRow
    THEN TRUE
    ELSE now - ParseDate(user_cooldowns[ip]) >= CooldownSeconds

\* the seconds to wait that a response tells its client: the cooldown
\* rejection carries the fixed text only, every other response none
ReportedWait(r) ==
  IF r.error = "Please wait 30 seconds between requests" THEN 30 ELSE 0

\* a variant that records the rejected attempt as the address's last request
SubmitCooldownRestarting(h) ==
  /\ req[h].pc = "cooldown"
  /\ IF ~checkCooldown(req[h].ip)
       THEN /\ Finish(h, Rejected(h, "CooldownActive"))
            /\ pending' = pending \cup
                            {Stmt("cooldown", req[h].ip, 0, toISOString(now))}
       ELSE /\ Goto(h, "inqueue")
            /\ UNCHANGED pending
  /\ emit' = {}
  /\ UNCHANGED <<variant, up, authorization, now, tables, af, adm, listing>>

SubmitCooldown(h) ==
  /\ req[h].pc = "cooldown"
  /\ IF ~checkCooldown(req[h].ip)
       THEN Finish(h, Rejected(h, "CooldownActive"))
       ELSE Goto(h, "inqueue")
  /\ emit' = {}
  /\ UNCHANGED <<variant, up, authorization, now, tables, pending, af, adm, listing>>

\* the live-duplicate check; on success cleanRecentlyPlayed() is called and
\* the recent-play lookup is issued
SubmitInQueue(h) ==
  /\ req[h].pc = "inqueue"
  /\ IF InQueue(req[h].song.id)
       THEN /\ Finish(h, Rejected(h, "DuplicateInQueue"))
            /\ UNCHANGED pending
       ELSE /\ Goto(h, "recent")
            /\ pending' = pending \cup {cleanRecentlyPlayed}
  /\ emit' = {}
  /\ UNCHANGED <<variant, up, authorization, now, tables, af, adm, listing>>

\* the recent-play lookup; on success the INSERT INTO queue is issued
SubmitRecent(h) ==
  /\ req[h].pc = "recent"
  /\ IF RecentlyPlayed(req[h].song.id)
       THEN Finish(h, Rejected(h, "RecentlyPlayed"))
       ELSE Goto(h, "insert")
  /\ emit' = {}
  /\ UNCHANGED <<variant, up, authorization, now, tables, pending, af, adm, listing>>

QueueRow(id, s) ==
  [id |-> id, song_id |-> s, requested_at |-> CurrentTimestamp(now), played |-> FALSE]

\* the INSERT INTO queue and its callback: the attribution and the cooldown
\* record are issued, not awaited; the event and the response follow at once
SubmitInsert(h) ==
  /\ req[h].pc = "insert"
  /\ queue' = queue \cup {QueueRow(nextId, req[h].song.id)}
  /\ nextId' = nextId + 1
  /\ pending' = pending \cup {Stmt("track", req[h].ip, nextId, <<>>),
                              Stmt("cooldown", req[h].ip, 0, toISOString(now))}
  /\ emit' = {"queue_updated"}
  /\ Finish(h, Accepted(h, nextId))
  /\ UNCHANGED <<variant, up, authorization, now, recently_played, rpNextId, user_cooldowns, user_requests,
                 settings, default_playlist, dpNextId, af, adm, listing>>

-----------------------------------------------------------------------------
(* autoFillQueue, run by setInterval every 10 s and once at startup *)

\* the timer fires and the invocation issues its count query
AutoFillTick ==
  /\ af.pc = "idle"
  /\ af' = [IdleAf EXCEPT !.pc = "count"]
  /\ reply' = NoReply
  /\ emit' = {}
  /\ UNCHANGED <<variant, up, authorization, now, tables, pending, req, adm, listing>>

\* AutoFillCount filling a queue that holds at most one pending row
AutoFillCountLoose ==
  /\ af.pc = "count"
  /\ af' = IF Cardinality(Pending) <= 1
             THEN [af EXCEPT !.pc = "recent"]
             ELSE IdleAf
  /\ reply' = NoReply
  /\ emit' = {}
  /\ UNCHANGED <<variant, up, authorization, now, tables, pending, req, adm, listing>>

\* AutoFillCount going on only when the queue holds a pending row
AutoFillCountInverted ==
  /\ af.pc = "count"
  /\ af' = IF Cardinality(Pending) # 0
             THEN [af EXCEPT !.pc = "recent"]
             ELSE IdleAf
  /\ reply' = NoReply
  /\ emit' = {}
  /\ UNCHANGED <<variant, up, authorization, now, tables, pending, req, adm, listing>>

\* SELECT COUNT(*) FROM queue WHERE played = 0; only an empty queue is filled
AutoFillCount ==
  /\ af.pc = "count"
  /\ af' = IF Cardinality(Pending) = 0
             THEN [af EXCEPT !.pc = "recent"]
             ELSE IdleAf
  /\ reply' = NoReply
  /\ emit' = {}
  /\ UNCHANGED <<variant, up, authorization, now, tables, pending, req, adm, listing>>

\* getNextDefaultSong, first query: SELECT song_id FROM recently_played
AutoFillRecent ==
  /\ af.pc = "recent"
  /\ af' = [af EXCEPT !.pc = "pick",
                      !.recent = {r.song_id : r \in recently_played}]
  /\ reply' = NoReply
  /\ emit' = {}
  /\ UNCHANGED <<variant, up, authorization, now, tables, pending, req, adm, listing>>

\* Eligible without the NOT IN filter
EligibleUnfiltered(recent) == default_playlist

\* the rows SELECT * FROM default_playlist [WHERE song_id NOT IN (recent)] yields
Eligible(recent) == {d \in default_playlist : d.song_id \notin recent}

\* AutoFillPick falling back on the whole playlist when no row is eligible
AutoFillPickAny ==
  /\ af.pc = "pick"
  /\ IF default_playlist = {}
       THEN af' = IdleAf
       ELSE \E d \in (IF Eligible(af.recent) = {} THEN default_playlist
                                                 ELSE Eligible(af.recent)) :
              af' = [af EXCEPT !.pc = "insert", !.song = d.song_id]
  /\ reply' = NoReply
  /\ emit' = {}
  /\ UNCHANGED <<variant, up, authorization, now, tables, pending, req, adm, listing>>

\* getNextDefaultSong, second query: ... ORDER BY RANDOM() LIMIT 1; with a
\* row the INSERT INTO queue is issued, without one the tick only logs
AutoFillPick ==
  /\ af.pc = "pick"
  /\ IF Eligible(af.recent) = {}
       THEN af' = IdleAf
       ELSE \E d \in Eligible(af.recent) :
              af' = [af EXCEPT !.pc = "insert", !.song = d.song_id]
  /\ reply' = NoReply
  /\ emit' = {}
  /\ UNCHANGED <<variant, up, authorization, now, tables, pending, req, adm, listing>>

\* a variant that attributes the row to an address as a request would
AutoFillInsertAttributed ==
  /\ af.pc = "insert"
  /\ queue' = queue \cup {QueueRow(nextId, af.song)}
  /\ nextId' = nextId + 1
  /\ user_requests' = user_requests \cup {[ip_address |-> "ip1", queue_id |-> nextId]}
  /\ af' = IdleAf
  /\ reply' = NoReply
  /\ emit' = {"queue_updated"}
  /\ UNCHANGED <<variant, up, authorization, now, recently_played, rpNextId, user_cooldowns,
                 settings, default_playlist, dpNextId, pending, req, adm, listing>>

\* the INSERT INTO queue of the tick and its callback
AutoFillInsert ==
  /\ af.pc = "insert"
  /\ queue' = queue \cup {QueueRow(nextId, af.song)}
  /\ nextId' = nextId + 1
  /\ af' = IdleAf
  /\ reply' = NoReply
  /\ emit' = {"queue_updated"}
  /\ UNCHANGED <<variant, up, authorization, now, recently_played, rpNextId, user_cooldowns, user_requests,
                 settings, default_playlist, dpNextId, pending, req, adm, listing>>

-----------------------------------------------------------------------------
(* POST /api/played/:queueId *)

PlayedStart(id) ==
  /\ adm.pc = "idle"
  /\ adm' = [IdleAdm EXCEPT !.pc = "get", !.id = id]
  /\ reply' = NoReply
  /\ emit' = {}
  /\ UNCHANGED <<variant, up, authorization, now, tables, pending, req, af, listing>>

\* SELECT * FROM queue WHERE id = ?
PlayedGet ==
  /\ adm.pc = "get"
  /\ IF \E q \in queue : q.id = adm.id
       THEN /\ adm' = [adm EXCEPT !.pc = "update",
                          !.song = (CHOOSE q \in queue : q.id = adm.id).song_id]
            /\ reply' = NoReply
       ELSE /\ adm' = IdleAdm
            /\ reply' = Reply("admin", 404, "Song not found in queue")
  /\ emit' = {}
  /\ UNCHANGED <<variant, up, authorization, now, tables, pending, req, af, listing>>

\* a variant whose UPDATE flips the flag
PlayedUpdateToggling ==
  /\ adm.pc = "update"
  /\ queue' = {IF q.id = adm.id THEN [q EXCEPT !.played = ~q.played] ELSE q : q \in queue}
  /\ adm' = [adm EXCEPT !.pc = "rp"]
  /\ reply' = NoReply
  /\ emit' = {}
  /\ UNCHANGED <<variant, up, authorization, now, nextId, recently_played, rpNextId, user_cooldowns,
                 user_requests, settings, default_playlist, dpNextId, pending,
                 req, af, listing>>

\* UPDATE queue SET played = 1 WHERE id = ?
PlayedUpdate ==
  /\ adm.pc = "update"
  /\ queue' = {IF q.id = adm.id THEN [q EXCEPT !.played = TRUE] ELSE q : q \in queue}
  /\ adm' = [adm EXCEPT !.pc = "rp"]
  /\ reply' = NoReply
  /\ emit' = {}
  /\ UNCHANGED <<variant, up, authorization, now, nextId, recently_played, rpNextId, user_cooldowns,
                 user_requests, settings, default_playlist, dpNextId, pending,
                 req, af, listing>>

\* INSERT INTO recently_played (song_id, title, artist)
PlayedInsert ==
  /\ adm.pc = "rp"
  /\ recently_played' = recently_played \cup
        {[id |-> rpNextId, song_id |-> adm.song, played_at |-> CurrentTimestamp(now)]}
  /\ rpNextId' = rpNextId + 1
  /\ adm' = [adm EXCEPT !.pc = "done"]
  /\ reply' = NoReply
  /\ emit' = {}
  /\ UNCHANGED <<variant, up, authorization, now, queue, nextId, user_cooldowns, user_requests, settings,
                 default_playlist, dpNextId, pending, req, af, listing>>

\* the callback of that INSERT, run by the event loop once the statement is
\* done: the two events and the response
PlayedDone ==
  /\ adm.pc = "done"
  /\ adm' = IdleAdm
  /\ reply' = Reply("admin", 200, "")
  /\ emit' = {"queue_updated", "now_playing"}
  /\ UNCHANGED <<variant, up, authorization, now, tables, pending, req, af, listing>>

-----------------------------------------------------------------------------
(* The single-statement endpoints *)

\* RemoveFromQueue deleting every row up to the given id
RemoveFromQueueUpTo(id) ==
  /\ queue' = {q \in queue : q.id > id}
  /\ IF queue' = queue
       THEN /\ reply' = Reply("admin", 404, "Song not found")
            /\ emit' = {}
       ELSE /\ reply' = Reply("admin", 200, "")
            /\ emit' = {"queue_updated"}
  /\ UNCHANGED <<variant, up, authorization, now, nextId, recently_played, rpNextId, user_cooldowns,
                 user_requests, settings, default_playlist, dpNextId, pending,
                 req, af, adm, listing>>

\* RemoveFromQueue without its io.emit
RemoveFromQueueSilent(id) ==
  /\ queue' = {q \in queue : q.id # id}
  /\ reply' = IF queue' = queue THEN Reply("admin", 404, "Song not found")
                                ELSE Reply("admin", 200, "")
  /\ emit' = {}
  /\ UNCHANGED <<variant, up, authorization, now, nextId, recently_played, rpNextId, user_cooldowns,
                 user_requests, settings, default_playlist, dpNextId, pending,
                 req, af, adm, listing>>

\* DELETE /api/queue/:queueId
RemoveFromQueue(id) ==
  /\ queue' = {q \in queue : q.id # id}
  /\ IF queue' = queue
       THEN /\ reply' = Reply("admin", 404, "Song not found")
            /\ emit' = {}
       ELSE /\ reply' = Reply("admin", 200, "")
            /\ emit' = {"queue_updated"}
  /\ UNCHANGED <<variant, up, authorization, now, nextId, recently_played, rpNextId, user_cooldowns,
                 user_requests, settings, default_playlist, dpNextId, pending,
                 req, af, adm, listing>>

\* the number of removed rows a response tells its client, -1 when it tells
\* none: the body of DELETE /api/queue is {success, message} and no body of
\* this server carries such a count
ReportedCount(r) == -1

\* DELETE /api/queue
ClearQueue ==
  /\ queue' = {q \in queue : q.played}
  /\ reply' = Reply("admin", 200, "Queue cleared")
  /\ emit' = {"queue_updated"}
  /\ UNCHANGED <<variant, up, authorization, now, nextId, recently_played, rpNextId, user_cooldowns,
                 user_requests, settings, default_playlist, dpNextId, pending,
                 req, af, adm, listing>>

\* a variant that adds a row with the new values next to the stored one
UpdateSettingsInserting(e) ==
  /\ settings' = settings \cup {[id |-> 1, explicit_allowed |-> e]}
  /\ reply' = Reply("admin", 200, "")
  /\ emit' = {"settings_updated"}
  /\ UNCHANGED <<variant, up, authorization, now, queue, nextId, recently_played, rpNextId, user_cooldowns,
                 user_requests, default_playlist, dpNextId, pending, req,
                 af, adm, listing>>

\* UpdateSettings dropping the pending explicit songs when they get disallowed
UpdateSettingsPurging(e) ==
  /\ settings' = {IF s.id = 1 THEN [s EXCEPT !.explicit_allowed = e] ELSE s :
                    s \in settings}
  /\ queue' = IF e THEN queue
                    ELSE {q \in queue : q.played \/ q.song_id \notin ExplicitSongs}
  /\ reply' = Reply("admin", 200, "")
  /\ emit' = {"settings_updated"}
  /\ UNCHANGED <<variant, up, authorization, now, nextId, recently_played, rpNextId, user_cooldowns,
                 user_requests, default_playlist, dpNextId, pending, req,
                 af, adm, listing>>

\* POST /api/settings with body.settings.explicitAllowed = e
UpdateSettings(e) ==
  /\ settings' = {IF s.id = 1 THEN [s EXCEPT !.explicit_allowed = e] ELSE s :
                    s \in settings}
  /\ reply' = Reply("admin", 200, "")
  /\ emit' = {"settings_updated"}
  /\ UNCHANGED <<variant, up, authorization, now, queue, nextId, recently_played, rpNextId, user_cooldowns,
                 user_requests, default_playlist, dpNextId, pending, req,
                 af, adm, listing>>

\* DELETE /api/cooldown from address ip
ClearCooldown(ip) ==
  /\ user_cooldowns' = [user_cooldowns EXCEPT ![ip] = NoRow]
  /\ reply' = Reply("admin", 200, "Cooldown cleared")
  /\ emit' = {}
  /\ UNCHANGED <<variant, up, authorization, now, queue, nextId, recently_played, rpNextId, user_requests,
                 settings, default_playlist, dpNextId, pending, req, af,
                 adm, listing>>

\* POST /api/default-playlist
AddDefault(body) ==
  /\ IF body.id = "" \/ body.title = "" \/ body.artist = ""
       THEN /\ reply' = Reply("admin", 400, "Invalid song data")
            /\ UNCHANGED <<default_playlist, dpNextId>>
       ELSE /\ default_playlist' = default_playlist \cup
                                     {[id |-> dpNextId, song_id |-> body.id]}
            /\ dpNextId' = dpNextId + 1
            /\ reply' = Reply("admin", 200, "Song added to default playlist")
  /\ emit' = {}
  /\ UNCHANGED <<variant, up, authorization, now, queue, nextId, recently_played, rpNextId, user_cooldowns,
                 user_requests, settings, pending, req, af, adm, listing>>

\* DELETE /api/default-playlist/:id
RemoveDefault(id) ==
  /\ default_playlist' = {d \in default_playlist : d.id # id}
  /\ reply' = IF default_playlist' = default_playlist
                  THEN Reply("admin", 404, "Song not found")
                  ELSE Reply("admin", 200, "")
  /\ emit' = {}
  /\ UNCHANGED <<variant, up, authorization, now, queue, nextId, recently_played, rpNextId, user_cooldowns,
                 user_requests, settings, dpNextId, pending, req, af, adm,
                 listing>>

\* the row sequences SELECT * FROM queue WHERE played = 0 ORDER BY requested_at ASC
\* may return: ascending in requested_at, rows of equal requested_at in any order
OrderedByRequestedAt(rows) ==
  {f \in [1 .. Cardinality(rows) -> rows] :
     /\ \A i, j \in 1 .. Cardinality(rows) : i # j => f[i] # f[j]
     /\ \A i, j \in 1 .. Cardinality(rows) :
          i < j => TextLeq(f[i].requested_at, f[j].requested_at)}

\* GET /api/queue
GetQueue ==
  /\ listing' \in OrderedByRequestedAt(Pending)
  /\ reply' = Reply("admin", 200, "")
  /\ emit' = {}
  /\ UNCHANGED <<variant, up, authorization, now, tables, pending, req, af, adm>>

\* GET /api/recently-played: cleanRecentlyPlayed() and the SELECT are both issued
GetRecentlyPlayed ==
  /\ pending' = pending \cup {cleanRecentlyPlayed}
  /\ reply' = Reply("admin", 200, "")
  /\ emit' = {}
  /\ UNCHANGED <<variant, up, authorization, now, tables, req, af, adm, listing>>

\* GET /api/settings: SELECT * FROM settings WHERE id = 1
GetSettings ==
  /\ reply' = Reply("admin", 200, "")
  /\ emit' = {}
  /\ UNCHANGED <<variant, up, authorization, now, tables, pending, req, af, adm, listing>>

\* the admin's client starts sending another Authorization header
SetAuthorization(auth) ==
  /\ authorization' = auth
  /\ reply' = NoReply
  /\ emit' = {}
  /\ UNCHANGED <<variant, up, now, tables, pending, req, af, adm, listing>>

\* GET /admin-player.html and GET /settings.html, the routes behind
\* requireAuth
GetAdminPage ==
  /\ reply' = IF requireAuth(authorization)
                 THEN Reply("admin", 200, "")
                 ELSE Reply("admin", 401, IF authorization = NoAuthorization
                                             THEN "Authentication required"
                                             ELSE "Invalid password")
  /\ emit' = {}
  /\ UNCHANGED <<variant, up, authorization, now, tables, pending, req, af, adm,
                 listing>>

-----------------------------------------------------------------------------
(* Store errors *)

\* a statement a request handler waits for fails: the rejected promise of a
\* query is caught by the handler's try/catch, the failed INSERT INTO queue
\* is answered in its callback
SubmitFail(h) ==
  /\ req[h].pc \in {"cap", "cooldown", "inqueue", "recent", "insert"}
  /\ Finish(h, IF req[h].pc = "insert"
                 THEN Reply(h, 500, "Failed to add song to queue")
                 ELSE Reply(h, 500, "Failed to process request"))
  /\ emit' = {}
  /\ UNCHANGED <<variant, up, authorization, now, tables, pending, af, adm, listing>>

\* a statement of autoFillQueue fails: the catch block or the callback of
\* the INSERT logs the error
AutoFillFail ==
  /\ af.pc \in {"count", "recent", "pick", "insert"}
  /\ af' = IdleAf
  /\ reply' = NoReply
  /\ emit' = {}
  /\ UNCHANGED <<variant, up, authorization, now, tables, pending, req, adm, listing>>

\* a statement that nothing waits for fails.  The callback of the
\* user_requests insert logs the error.  The DELETE of cleanRecentlyPlayed
\* has no callback, so the driver emits 'error' on an emitter without a
\* listener, and the promise of updateCooldown is rejected with nothing
\* handling it: either ends the process (Node.js 18), and with it the
\* handlers and statements in flight.
ExecPendingFail(st) ==
  /\ st \in pending
  /\ IF st.op = "track"
       THEN /\ pending' = pending \ {st}
            /\ UNCHANGED <<up, req, af, adm>>
       ELSE /\ up' = FALSE
            /\ pending' = {}
            /\ req' = [h \in Handlers |-> IdleReq]
            /\ af' = IdleAf
            /\ adm' = IdleAdm
  /\ reply' = NoReply
  /\ emit' = {}
  /\ UNCHANGED <<variant, authorization, now, tables, listing>>

-----------------------------------------------------------------------------
(* The auto-playlist queue of the library server *)

core == <<up, authorization, now, tables, pending, req, af, adm, listing>>

\* the size generate fills the auto-playlist queue up to
AutoPlaylistSize == 5

\* the rows of music_library with downloaded = 1, and the themes a generate
\* call may name
Library ==
  {[id |-> i, genre |-> IF i = 1 THEN "rock" ELSE "pop"] : i \in 1 .. MaxLibrary}
Themes == {"general", "rock"}

\* the counts of a response body that has only the key added
Added(n) == [NoCounts EXCEPT !.added = n]

\* the results ORDER BY RANDOM() LIMIT n may give for the rows of S
RandomLimit(S, n) ==
  LET k == IF n < Cardinality(S) THEN n ELSE Cardinality(S)
  IN  {s \in [1 .. k -> S] : \A i, j \in 1 .. k : s[i] = s[j] => i = j}

\* the request arrives and its count query is issued
GenerateStart(h, theme) ==
  /\ gen[h].pc = "idle"
  /\ gen' = [gen EXCEPT ![h] = [IdleGen EXCEPT !.pc = "count", !.theme = theme]]
  /\ reply' = NoReply
  /\ emit' = {}
  /\ counts' = NoCounts
  /\ UNCHANGED <<core, auto_playlist_queue, apNextId, rem, download_queue,
                 dqNextId, bulk>>

\* SELECT COUNT(*) FROM auto_playlist_queue and its callback
GenerateCount(h) ==
  /\ gen[h].pc = "count"
  /\ LET currentCount == Cardinality(auto_playlist_queue)
     IN  IF AutoPlaylistSize - currentCount <= 0
           THEN /\ gen' = [gen EXCEPT ![h] = IdleGen]
                /\ reply' = Reply("admin", 200, "Queue already full")
                /\ counts' = Added(0)
           ELSE /\ gen' = [gen EXCEPT ![h].pc = "select",
                                      ![h].count = currentCount]
                /\ reply' = NoReply
                /\ counts' = NoCounts
  /\ emit' = {}
  /\ UNCHANGED <<core, auto_playlist_queue, apNextId, rem, download_queue,
                 dqNextId, bulk>>

\* the library rows generate may take: downloaded, not in the auto-playlist
\* queue, and of the theme when one other than 'general' is given
Candidates(theme) ==
  {l \in Library :
     /\ l.id \notin {q.song_id : q \in auto_playlist_queue}
     /\ theme = "general" \/ l.genre = theme}

\* the random selection and its callback, which issues one INSERT per row
\* at queue_position currentCount + index + 1
GenerateSelect(h) ==
  /\ gen[h].pc = "select"
  /\ IF Candidates(gen[h].theme) = {}
       THEN /\ gen' = [gen EXCEPT ![h] = IdleGen]
            /\ reply' = Reply("admin", 200, "No songs available in library")
            /\ counts' = Added(0)
       ELSE /\ \E rows \in RandomLimit(Candidates(gen[h].theme),
                                        AutoPlaylistSize - gen[h].count) :
                 gen' = [gen EXCEPT
                           ![h].pc = "insert",
                           ![h].todo = {[song_id |-> rows[i].id,
                                         queue_position |-> gen[h].count + i] :
                                          i \in DOMAIN rows}]
            /\ reply' = NoReply
            /\ counts' = NoCounts
  /\ emit' = {}
  /\ UNCHANGED <<core, auto_playlist_queue, apNextId, rem, download_queue,
                 dqNextId, bulk>>

\* the database executes one of the INSERTs of the call
GenerateInsert(h, st) ==
  /\ gen[h].pc = "insert"
  /\ st \in gen[h].todo
  /\ auto_playlist_queue' = auto_playlist_queue \cup
        {[id |-> apNextId, song_id |-> st.song_id,
          queue_position |-> st.queue_position]}
  /\ apNextId' = apNextId + 1
  /\ gen' = [gen EXCEPT ![h].todo = @ \ {st}, ![h].added = @ + 1]
  /\ reply' = NoReply
  /\ emit' = {}
  /\ counts' = NoCounts
  /\ UNCHANGED <<core, rem, download_queue, dqNextId, bulk>>

\* one of the INSERTs fails: its callback does not count it
GenerateInsertFail(h, st) ==
  /\ gen[h].pc = "insert"
  /\ st \in gen[h].todo
  /\ gen' = [gen EXCEPT ![h].todo = @ \ {st}]
  /\ reply' = NoReply
  /\ emit' = {}
  /\ counts' = NoCounts
  /\ UNCHANGED <<core, auto_playlist_queue, apNextId, rem, download_queue,
                 dqNextId, bulk>>

\* Promise.all(insertPromises).then: the response
GenerateDone(h) ==
  /\ gen[h].pc = "insert"
  /\ gen[h].todo = {}
  /\ gen' = [gen EXCEPT ![h] = IdleGen]
  /\ reply' = Reply("admin", 200, "")
  /\ counts' = Added(gen[h].added)
  /\ emit' = {}
  /\ UNCHANGED <<core, auto_playlist_queue, apNextId, rem, download_queue,
                 dqNextId, bulk>>

GenerateStep(h) ==
  \/ GenerateCount(h)
  \/ GenerateSelect(h)
  \/ \E st \in gen[h].todo : GenerateInsert(h, st)
  \/ \E st \in gen[h].todo : GenerateInsertFail(h, st)
  \/ GenerateDone(h)

\* The last segment of a DELETE /api/auto-playlist/... path: the digits of
\* an id, or the word clear
IdSegment(i) == [word |-> FALSE, id |-> i]
ClearSegment == [word |-> TRUE, id |-> 0]

\* the DELETE routes under /api/auto-playlist in the order of registration
DeleteRoutes == <<":id", "clear">>

\* a route pattern matches a segment: a parameter matches any segment
Matches(pattern, seg) == pattern = ":id" \/ (pattern = "clear" /\ seg.word)

\* the route express dispatches to: the first registered one that matches
Dispatch(seg) ==
  DeleteRoutes[CHOOSE i \in DOMAIN DeleteRoutes :
                 /\ Matches(DeleteRoutes[i], seg)
                 /\ \A j \in 1 .. i - 1 : ~Matches(DeleteRoutes[j], seg)]

\* DELETE FROM auto_playlist_queue WHERE id = ?: a parameter that is not a
\* number equals no id
DeletedById(seg) ==
  {q \in auto_playlist_queue : seg.word \/ q.id # seg.id}

\* a DELETE request arrives: in the handler of :id the row is deleted and
\* the reorder is issued; in the handler of clear the table is emptied
AutoPlaylistDelete(seg) ==
  /\ rem.pc = "idle"
  /\ IF Dispatch(seg) = ":id"
       THEN /\ auto_playlist_queue' = DeletedById(seg)
            /\ rem' = [pc |-> "reorder"]
            /\ reply' = NoReply
            /\ counts' = NoCounts
       ELSE /\ auto_playlist_queue' = {}
            /\ rem' = rem
            /\ reply' = Reply("admin", 200, "")
            /\ counts' = [NoCounts EXCEPT !.cleared = Cardinality(auto_playlist_queue)]
  /\ emit' = {}
  /\ UNCHANGED <<core, apNextId, gen, download_queue, dqNextId, bulk>>

\* the reorder UPDATE: the rows are updated one by one in rowid order, and
\* the count of the smaller positions is taken on the table as it is then
RECURSIVE Reordered(_, _)
Reordered(tbl, ids) ==
  IF ids = {} THEN tbl
  ELSE LET m == CHOOSE i \in ids : \A j \in ids : i <= j
           r == CHOOSE q \in tbl : q.id = m
           p == Cardinality({q \in tbl : q.queue_position < r.queue_position}) + 1
       IN  Reordered((tbl \ {r}) \cup {[r EXCEPT !.queue_position = p]},
                     ids \ {m})

\* the reorder and its callback: the response
AutoPlaylistReorder ==
  /\ rem.pc = "reorder"
  /\ auto_playlist_queue' =
       Reordered(auto_playlist_queue, {q.id : q \in auto_playlist_queue})
  /\ rem' = IdleRem
  /\ reply' = Reply("admin", 200, "")
  /\ counts' = NoCounts
  /\ emit' = {}
  /\ UNCHANGED <<core, apNextId, gen, download_queue, dqNextId, bulk>>

-----------------------------------------------------------------------------
(* The download queue of the library server *)

\* the songs of a bulk upload; artist "" is a song sent without an artist
BulkSongs ==
  {[title |-> "t1", artist |-> "a1"], [title |-> "t2", artist |-> "a1"],
   [title |-> "t1", artist |-> ""]}

\* the arrays a bulk upload may carry
Batches == UNION {[1 .. n -> BulkSongs] : n \in 0 .. MaxBatch}

\* SELECT id FROM download_queue WHERE title = ? AND artist = ? AND
\* status = "pending": an artist that is missing is bound as NULL and equals
\* no row
Existing(song) ==
  \E r \in download_queue :
    /\ r.title = song.title
    /\ song.artist # "" /\ r.artist = song.artist
    /\ r.status = "pending"

\* the request arrives: a missing or empty array is answered 400, otherwise
\* songs.map(insertSong) issues the lookup of every song
BulkStart(songs) ==
  /\ bulk.pc = "idle"
  /\ IF Len(songs) = 0
       THEN /\ bulk' = IdleBulk
            /\ reply' = Reply("admin", 400, "Invalid songs array")
       ELSE /\ bulk' = [IdleBulk EXCEPT !.pc = "run", !.songs = songs,
                                        !.lookups = DOMAIN songs]
            /\ reply' = NoReply
  /\ counts' = NoCounts
  /\ emit' = {}
  /\ UNCHANGED <<core, auto_playlist_queue, apNextId, gen, rem, download_queue,
                 dqNextId>>

\* the lookup of one song and its callback: a song found is skipped, for
\* any other the INSERT is issued
BulkLookup(i) ==
  /\ bulk.pc = "run"
  /\ i \in bulk.lookups
  /\ IF Existing(bulk.songs[i])
       THEN bulk' = [bulk EXCEPT !.lookups = @ \ {i}, !.skipped = @ + 1]
       ELSE bulk' = [bulk EXCEPT !.lookups = @ \ {i}, !.inserts = @ \cup {i}]
  /\ reply' = NoReply
  /\ counts' = NoCounts
  /\ emit' = {}
  /\ UNCHANGED <<core, auto_playlist_queue, apNextId, gen, rem, download_queue,
                 dqNextId>>

\* the INSERT of one song, with 'Unknown Artist' for a missing artist, and
\* its callback
BulkInsert(i) ==
  /\ bulk.pc = "run"
  /\ i \in bulk.inserts
  /\ download_queue' = download_queue \cup
        {[id |-> dqNextId, title |-> bulk.songs[i].title,
          artist |-> IF bulk.songs[i].artist = "" THEN "Unknown Artist"
                                                  ELSE bulk.songs[i].artist,
          status |-> "pending"]}
  /\ dqNextId' = dqNextId + 1
  /\ bulk' = [bulk EXCEPT !.inserts = @ \ {i}, !.added = @ + 1]
  /\ reply' = NoReply
  /\ counts' = NoCounts
  /\ emit' = {}
  /\ UNCHANGED <<core, auto_playlist_queue, apNextId, gen, rem>>

\* the INSERT of one song fails: its callback counts the song as skipped
BulkInsertFail(i) ==
  /\ bulk.pc = "run"
  /\ i \in bulk.inserts
  /\ bulk' = [bulk EXCEPT !.inserts = @ \ {i}, !.skipped = @ + 1]
  /\ reply' = NoReply
  /\ counts' = NoCounts
  /\ emit' = {}
  /\ UNCHANGED <<core, auto_playlist_queue, apNextId, gen, rem, download_queue,
                 dqNextId>>

\* Promise.all(songs.map(insertSong)).then: the response
BulkDone ==
  /\ bulk.pc = "run"
  /\ bulk.lookups = {} /\ bulk.inserts = {}
  /\ bulk' = IdleBulk
  /\ reply' = Reply("admin", 200, "")
  /\ counts' = [NoCounts EXCEPT !.added = bulk.added, !.skipped = bulk.skipped,
                                !.total = Len(bulk.songs)]
  /\ emit' = {}
  /\ UNCHANGED <<core, auto_playlist_queue, apNextId, gen, rem, download_queue,
                 dqNextId>>

-----------------------------------------------------------------------------
(* Specifications *)

Noon == DaySeconds + 12 * HourSeconds

Bodies == {Song(s) : s \in Songs}

\* request bodies without a song, or whose song lacks its id, its title or
\* its artist
InvalidBodies ==
  {NoSong, Untitled("s1"), [Song("s1") EXCEPT !.id = ""],
   [Song("s2") EXCEPT !.artist = ""]}

\* queue ids are left for one more insert besides those in flight
Room(max) == nextId + InFlight <= max

SubmitStep(h) ==
  \/ SubmitCap(h)
  \/ SubmitCooldown(h)
  \/ SubmitInQueue(h)
  \/ SubmitRecent(h)
  \/ SubmitInsert(h)

AutoFillStep ==
  \/ AutoFillCount
  \/ AutoFillRecent
  \/ AutoFillPick
  \/ AutoFillInsert

PlayedStep ==
  \/ PlayedGet
  \/ PlayedUpdate
  \/ PlayedInsert
  \/ PlayedDone

\* Two requesters, the auto-fill timer and the settings page
Next ==
  \/ \E b \in Bodies :
       /\ Room(MaxQueueId)
       /\ SubmitStart("h1", "ip1", b) \/ SubmitStart("h2", "ip2", b)
  \/ \E h \in Handlers : SubmitStep(h)
  \/ \E st \in pending : ExecPending(st)
  \/ Room(MaxQueueId) /\ AutoFillTick
  \/ AutoFillStep
  \/ \E s \in Songs : dpNextId <= MaxPlaylistId /\ AddDefault(Song(s))
  \/ \E e \in BOOLEAN : UpdateSettings(e)

Spec == Init /\ [][Next]_vars

\* One requester, the auto-fill timer, the admin marking songs played and
\* curating the fallback playlist
NextFill ==
  \/ \E b \in Bodies : Room(MaxQueueId) /\ SubmitStart("h1", "ip1", b)
  \/ SubmitStep("h1")
  \/ \E st \in pending : ExecPending(st)
  \/ Room(MaxQueueId) /\ AutoFillTick
  \/ AutoFillStep
  \/ \E id \in 1 .. MaxQueueId : rpNextId <= MaxPlayedId /\ PlayedStart(id)
  \/ PlayedStep
  \/ \E s \in Songs : dpNextId <= MaxPlaylistId /\ AddDefault(Song(s))

SpecFill == Init /\ [][NextFill]_vars

\* setInterval(autoFillQueue, 10000) keeps firing, and the database executes
\* the statements an invocation waits for
SpecFillFair ==
  /\ Init /\ [][NextFill]_vars
  /\ WF_vars(Room(MaxQueueId) /\ AutoFillTick)
  /\ WF_vars(AutoFillStep)

\* The database file outlives the server (CREATE TABLE IF NOT EXISTS): a
\* startup that finds four pending requests of ip1, one every 30 s before
\* noon, each attributed to ip1, and ip1's cooldown record of the last one
InitCap ==
  /\ up = TRUE
  /\ authorization = NoAuthorization
  /\ now = Noon
  /\ queue = {[id |-> i, song_id |-> <<"s1", "s2", "s3", "s4">>[i],
               requested_at |-> CurrentTimestamp(Noon - (5 - i) * CooldownSeconds),
               played |-> FALSE] : i \in 1 .. 4}
  /\ nextId = 5
  /\ recently_played = {}
  /\ rpNextId = 1
  /\ user_cooldowns = [i \in Ips |->
                         IF i = "ip1" THEN toISOString(Noon - CooldownSeconds)
                                      ELSE NoRow]
  /\ user_requests = {[ip_address |-> "ip1", queue_id |-> i] : i \in 1 .. 4}
  /\ settings = {[id |-> 1, explicit_allowed |-> TRUE]}
  /\ default_playlist = {}
  /\ dpNextId = 1
  /\ pending = {}
  /\ req = [h \in Handlers |-> IdleReq]
  /\ af = IdleAf
  /\ adm = IdleAdm
  /\ reply = NoReply
  /\ emit = {}
  /\ listing = <<>>
  /\ auto_playlist_queue = {}
  /\ apNextId = 1
  /\ gen = [h \in Handlers |-> IdleGen]
  /\ rem = IdleRem
  /\ download_queue = {}
  /\ dqNextId = 1
  /\ bulk = IdleBulk
  /\ counts = NoCounts

\* Two requests at a time from ip1, which is one short of its quota, and the
\* admin marking songs played
NextCap ==
  \/ \E h \in Handlers, s \in CapSongs :
       Room(MaxCapQueueId) /\ SubmitStart(h, "ip1", Song(s))
  \/ \E h \in Handlers : SubmitStep(h)
  \/ \E st \in pending : ExecPending(st)
  \/ \E id \in 1 .. MaxCapQueueId : rpNextId <= MaxPlayedId /\ PlayedStart(id)
  \/ PlayedStep

SpecCap == InitCap /\ [][NextCap]_vars

\* the instants around the end of a cooldown that starts at noon
CooldownInstants == {Noon + CooldownSeconds - 1, Noon + CooldownSeconds}

\* Two requests at a time from one address, while the clock runs
NextCooldown ==
  \/ \E h \in Handlers, b \in Bodies :
       Room(MaxQueueId) /\ SubmitStart(h, "ip1", b)
  \/ \E h \in Handlers : SubmitStep(h)
  \/ \E st \in pending : ExecPending(st)
  \/ \E t \in CooldownInstants : Tick(t)

SpecCooldown == Init /\ [][NextCooldown]_vars

\* the instants just before and just after the end of a retention window
\* that starts at noon
RetentionInstants == {Noon + HourSeconds - 1, Noon + HourSeconds + 1}

\* One request at a time from either address, the admin marking songs
\* played, the cleanup timer and the recently-played page, while the clock runs
NextRetention ==
  \/ \E ip \in Ips, b \in Bodies :
       Room(MaxQueueId) /\ SubmitStart("h1", ip, b)
  \/ SubmitStep("h1")
  \/ \E st \in pending : ExecPending(st)
  \/ \E id \in 1 .. MaxQueueId : rpNextId <= MaxPlayedId /\ PlayedStart(id)
  \/ PlayedStep
  \/ CleanupTimer
  \/ GetRecentlyPlayed
  \/ \E t \in RetentionInstants : Tick(t)

SpecRetention == Init /\ [][NextRetention]_vars

\* the instant the clock of the ordering scenario moves on to
OrderInstants == {Noon + 1}

\* Requests from two addresses add rows while the clock runs, and the queue
\* page is read
NextOrder ==
  \/ \E b \in Bodies :
       Room(MaxQueueId) /\ (SubmitStart("h1", "ip1", b) \/ SubmitStart("h2", "ip2", b))
  \/ \E h \in Handlers : SubmitStep(h)
  \/ \E st \in pending : ExecPending(st)
  \/ \E t \in OrderInstants : Tick(t)
  \/ GetQueue

SpecOrder == Init /\ [][NextOrder]_vars

\* One requester and the admin page: songs are marked played (also a second
\* time), removed, and the pending queue is cleared
NextPlayed ==
  \/ \E b \in Bodies : Room(MaxQueueId) /\ SubmitStart("h1", "ip1", b)
  \/ SubmitStep("h1")
  \/ \E st \in pending : ExecPending(st)
  \/ \E id \in 1 .. MaxQueueId : rpNextId <= MaxMarks /\ PlayedStart(id)
  \/ PlayedStep
  \/ \E id \in 1 .. MaxQueueId : RemoveFromQueue(id)
  \/ ClearQueue

SpecPlayed == Init /\ [][NextPlayed]_vars

\* Two requesters sending complete and incomplete bodies
NextValidate ==
  \/ \E b \in Bodies \cup InvalidBodies :
       /\ Room(MaxQueueId)
       /\ SubmitStart("h1", "ip1", b) \/ SubmitStart("h2", "ip2", b)
  \/ \E h \in Handlers : SubmitStep(h)
  \/ \E st \in pending : ExecPending(st)

SpecValidate == Init /\ [][NextValidate]_vars

\* The three query endpoints and the admin marking songs played, on a
\* database that holds pending requests, while the clock runs; no request
\* handler and no cleanup timer runs
NextQuery ==
  \/ \E id \in 1 .. MaxCapQueueId : rpNextId <= MaxPlayedId /\ PlayedStart(id)
  \/ PlayedStep
  \/ \E st \in pending : ExecPending(st)
  \/ GetQueue
  \/ GetRecentlyPlayed
  \/ GetSettings
  \/ \E t \in RetentionInstants : Tick(t)

SpecQuery == InitCap /\ [][NextQuery]_vars

\* One requester, the auto-fill timer and the fallback playlist, on a store
\* whose statements may fail; nothing runs once the process has ended
NextStore ==
  \/ \E b \in Bodies : up /\ Room(MaxQueueId) /\ SubmitStart("h1", "ip1", b)
  \/ up /\ SubmitStep("h1")
  \/ up /\ SubmitFail("h1")
  \/ \E st \in pending : up /\ ExecPending(st)
  \/ \E st \in pending : up /\ ExecPendingFail(st)
  \/ up /\ Room(MaxQueueId) /\ AutoFillTick
  \/ up /\ AutoFillStep
  \/ up /\ AutoFillFail
  \/ \E s \in Songs : up /\ dpNextId <= MaxPlaylistId /\ AddDefault(Song(s))

SpecStore == Init /\ [][NextStore]_vars

\* Two addresses sending requests and clearing their cooldown records
NextClear ==
  \/ \E b \in Bodies : Room(MaxQueueId) /\ SubmitStart("h1", "ip1", b)
  \/ \E b \in Bodies : Room(MaxQueueId) /\ SubmitStart("h2", "ip2", b)
  \/ \E h \in Handlers : SubmitStep(h)
  \/ \E st \in pending : ExecPending(st)
  \/ \E ip \in Ips : ClearCooldown(ip)

SpecClear == Init /\ [][NextClear]_vars

\* Generate calls, two at a time
NextAuto ==
  \/ \E h \in Handlers, theme \in Themes :
       apNextId <= MaxAutoId /\ GenerateStart(h, theme)
  \/ \E h \in Handlers : GenerateStep(h)

\* Generate calls, one at a time, with removals and clear requests
NextAutoRemove ==
  \/ \E theme \in Themes : apNextId <= MaxAutoId /\ GenerateStart("h1", theme)
  \/ GenerateStep("h1")
  \/ \E i \in 1 .. MaxAutoId :
       /\ Cardinality(auto_playlist_queue) >= MinAutoRows
       /\ AutoPlaylistDelete(IdSegment(i))
  \/ AutoPlaylistDelete(ClearSegment)
  \/ AutoPlaylistReorder

\* a startup that finds four library songs in the auto-playlist queue, at
\* positions 1 to 4
InitAuto ==
  /\ up = TRUE
  /\ authorization = NoAuthorization
  /\ now = Noon
  /\ queue = {}
  /\ nextId = 1
  /\ recently_played = {}
  /\ rpNextId = 1
  /\ user_cooldowns = [i \in Ips |-> NoRow]
  /\ user_requests = {}
  /\ settings = {[id |-> 1, explicit_allowed |-> TRUE]}
  /\ default_playlist = {}
  /\ dpNextId = 1
  /\ pending = {}
  /\ req = [h \in Handlers |-> IdleReq]
  /\ af = IdleAf
  /\ adm = IdleAdm
  /\ reply = NoReply
  /\ emit = {}
  /\ listing = <<>>
  /\ auto_playlist_queue =
       {[id |-> i, song_id |-> i, queue_position |-> i] : i \in 1 .. 4}
  /\ apNextId = 5
  /\ gen = [h \in Handlers |-> IdleGen]
  /\ rem = IdleRem
  /\ download_queue = {}
  /\ dqNextId = 1
  /\ bulk = IdleBulk
  /\ counts = NoCounts

SpecAuto == InitAuto /\ [][NextAuto]_vars

SpecAutoRemove == InitAuto /\ [][NextAutoRemove]_vars

\* Bulk uploads, one at a time
NextBulk ==
  \/ \E songs \in Batches : dqNextId <= MaxDownloadId /\ BulkStart(songs)
  \/ \E i \in bulk.lookups : BulkLookup(i)
  \/ \E i \in bulk.inserts : BulkInsert(i)
  \/ \E i \in bulk.inserts : BulkInsertFail(i)
  \/ BulkDone

SpecBulk == Init /\ [][NextBulk]_vars

\* The admin endpoints called by a client with any Authorization header;
\* the header of a request does not change while its handler runs
NextAuth ==
  \/ \E auth \in Authorizations : adm.pc = "idle" /\ SetAuthorization(auth)
  \/ GetAdminPage
  \/ \E b \in Bodies : Room(MaxQueueId) /\ SubmitStart("h1", "ip1", b)
  \/ SubmitStep("h1")
  \/ \E st \in pending : ExecPending(st)
  \/ \E id \in 1..MaxQueueId : rpNextId <= MaxPlayedId /\ PlayedStart(id)
  \/ PlayedStep
  \/ \E id \in 1..MaxQueueId : RemoveFromQueue(id)
  \/ ClearQueue
  \/ \E e \in BOOLEAN : UpdateSettings(e)

SpecAuth == Init /\ [][NextAuth]_vars

\* the song requested and the song of the fallback playlist in the broadcast
\* scenario
NotifyRequests == {"s1"}
NotifyDefaults == {"s2"}

\* Every endpoint that changes the queue or the settings: one requester, the
\* auto-fill timer, and the admin marking played, removing, clearing, curating
\* the fallback playlist and saving settings
NextNotify ==
  \/ \E s \in NotifyRequests : Room(MaxQueueId) /\ SubmitStart("h1", "ip1", Song(s))
  \/ SubmitStep("h1")
  \/ \E st \in pending : ExecPending(st)
  \/ Room(MaxQueueId) /\ AutoFillTick
  \/ AutoFillStep
  \/ \E id \in 1 .. MaxQueueId : rpNextId <= MaxPlayedId /\ PlayedStart(id)
  \/ PlayedStep
  \/ \E id \in 1 .. MaxQueueId : RemoveFromQueue(id)
  \/ ClearQueue
  \/ \E s \in NotifyDefaults : dpNextId <= MaxPlaylistId /\ AddDefault(Song(s))
  \/ \E e \in BOOLEAN : UpdateSettings(e)

\* the database executes the statements a handler waits for and the event
\* loop runs their callbacks
SpecNotify == Init /\ [][NextNotify]_vars /\ WF_vars(PlayedStep)

-----------------------------------------------------------------------------
(* Steps of the handlers, as seen in a pair of states *)

SubmitStepAt(h, pc) == req[h].pc = pc /\ req'[h].pc # pc
AutoFillStepAt(pc) == af.pc = pc /\ af'.pc # pc
PlayedStepAt(pc) == adm.pc = pc /\ adm'.pc # pc

-----------------------------------------------------------------------------
(* C1: no two pending (played = 0) queue rows share a song_id, under any   *)
(* interleaving of request handlers and auto-fill ticks.                   *)
C1_NoDuplicatePending ==
  \A a, b \in Pending : a.song_id = b.song_id => a = b

(* C2: the list GET /api/queue returns is in insertion order: a row        *)
(* inserted earlier (lower id) precedes a row inserted later, also when    *)
(* both carry the same requested_at second.  (Stated for rows of          *)
(* different songs, so that it does not rest on C1.)                       *)
C2_ListingInInsertionOrder ==
  \A i, j \in DOMAIN listing :
    (i < j /\ listing[i].song_id # listing[j].song_id) =>
      listing[i].id < listing[j].id

(* C3: a request whose count query finds 5 (or more) non-played requests   *)
(* attributed to its identity is answered 429 "You can only have 5 songs   *)
(* in the queue at once" and changes nothing; one that finds fewer goes    *)
(* on to the cooldown check; and marking played a pending request          *)
(* attributed to an identity lowers that identity's count by one, so that  *)
(* after 5 the next cap check passes.                                      *)
C3_CapAtFive ==
  [][/\ \A h \in Handlers :
          SubmitStepAt(h, "cap") =>
            IF UserCount(req[h].ip) >= 5
              THEN /\ reply' = Reply(h, 429, "You can only have 5 songs in the queue at once")
                   /\ req'[h] = IdleReq
                   /\ UNCHANGED <<tables, pending>>
                   /\ emit' = {}
              ELSE req'[h].pc = "cooldown" /\ reply' = NoReply
     /\ \A ip \in Ips :
          (/\ PlayedStepAt("update")
           /\ \E q \in Pending : q.id = adm.id
           /\ \E u \in user_requests : u.ip_address = ip /\ u.queue_id = adm.id) =>
             UserCount(ip)' = UserCount(ip) - 1
    ]_vars

\* ip1 had five pending requests (ids 1..5); the fifth has been marked played
\* and a further request of ip1 has just passed the cap check
C3_Witness ==
  /\ \A i \in 1 .. 5 : [ip_address |-> "ip1", queue_id |-> i] \in user_requests
  /\ \A i \in 1 .. 4 : \E q \in Pending : q.id = i
  /\ \E q \in queue : q.id = 5 /\ q.played
  /\ UserCount("ip1") = 4
  /\ \E h \in Handlers : req[h].pc = "cooldown" /\ req[h].ip = "ip1"

\* the accepted requests of an identity: the queue rows whose attribution to
\* it is stored or issued
AcceptedOf(ip) ==
  {q \in queue :
     \/ [ip_address |-> ip, queue_id |-> q.id] \in user_requests
     \/ Stmt("track", ip, q.id, <<>>) \in pending}

(* C4: of two submissions from one identity less than 30 s apart, the      *)
(* second is rejected when the first was accepted; hence, with no cooldown *)
(* cleared, no identity has two accepted requests during the first 30 s    *)
(* after a startup with empty tables.                                      *)
C4_OneAcceptedPerCooldown ==
  now < Noon + CooldownSeconds =>
    \A ip \in Ips : Cardinality(AcceptedOf(ip)) <= 1

\* the instant a stored timestamp names
InstantOf(ts) == ts[1] * DaySeconds + ts[3]

(* C5: a resubmission of a song whose request has been marked played less  *)
(* than an hour ago is answered 409 "This song was played recently" by the *)
(* recent-play lookup, whatever cleanup ran in between.  (The server       *)
(* starts at noon with empty tables, so before 13:00 every mark is less    *)
(* than an hour old.)                                                      *)
C5_RejectedWithinHour ==
  [][\A h \in Handlers :
       (/\ SubmitStepAt(h, "recent")
        /\ now < Noon + HourSeconds
        /\ adm.pc = "idle"
        /\ \E q \in queue : q.played /\ q.song_id = req[h].song.id) =>
          reply' = Reply(h, 409, "This song was played recently")
    ]_vars

(* C6: a resubmission that arrives more than an hour after every play of   *)
(* its song passes the recent-play lookup, with or without a cleanup tick  *)
(* since the play.                                                         *)
C6_AdmissibleAfterHour ==
  [][\A h \in Handlers :
       (/\ SubmitStepAt(h, "recent")
        /\ \A r \in recently_played :
              r.song_id = req[h].song.id =>
                InstantOf(r.played_at) + HourSeconds < req[h].at) =>
          req'[h].pc = "insert"
    ]_vars

(* C7: an auto-fill tick whose count query sees an empty pending queue     *)
(* goes on to select; when the fallback playlist holds a row whose song is *)
(* absent from the recently played ids the tick read, the tick selects     *)
(* such a row, and its insert adds exactly one queue row, pending, with    *)
(* a fresh id and that song.                                               *)
C7_AutoFillAddsOne ==
  [][/\ (AutoFillStepAt("count") /\ Pending = {}) => af'.pc = "recent"
     /\ (AutoFillStepAt("recent")) =>
           af'.pc = "pick" /\ af'.recent = {r.song_id : r \in recently_played}
     /\ (AutoFillStepAt("pick")
           /\ \E d \in default_playlist : d.song_id \notin af.recent) =>
           /\ af'.pc = "insert"
           /\ af'.song \notin af.recent
           /\ \E d \in default_playlist : d.song_id = af'.song
     /\ AutoFillStepAt("insert") =>
           /\ \E r \in queue' :
                /\ queue' = queue \cup {r}
                /\ \A q \in queue : q.id # r.id
                /\ ~r.played
                /\ r.song_id = af.song
           /\ Cardinality(Pending') = Cardinality(Pending) + 1
           /\ af'.pc = "idle"
    ]_vars

\* a tick has inserted a fallback song that was not recently played while
\* another fallback song was
C7_Witness ==
  /\ af.pc = "idle"
  /\ emit = {"queue_updated"}
  /\ reply = NoReply
  /\ Cardinality(Pending) = 1
  /\ \E q \in Pending, d \in default_playlist :
       d.song_id = q.song_id /\ ~RecentlyPlayed(q.song_id)
  /\ \E d \in default_playlist : RecentlyPlayed(d.song_id)

(* C8: an auto-fill tick whose count query sees one or more pending rows   *)
(* ends there: it issues no statement, changes no table and emits no event.*)
C8_AutoFillNoOp ==
  [][(AutoFillStepAt("count") /\ Cardinality(Pending) >= 1) =>
        /\ af' = IdleAf
        /\ UNCHANGED <<tables, pending>>
        /\ emit' = {}
    ]_vars

\* a tick is about to read the count of a queue that holds a pending row
C8_Witness == af.pc = "count" /\ Cardinality(Pending) >= 1

(* C9: an auto-fill row is only ever inserted into a pending queue that is *)
(* empty at the moment of the insert.                                      *)
C9_InsertOnlyIntoEmpty ==
  [][AutoFillStepAt("insert") => Pending = {}]_vars

(* C10: while settings.explicit_allowed is false, the insert of a song     *)
(* flagged explicit never happens: the submission is rejected and the      *)
(* queue keeps its rows.                                                   *)
C10_ExplicitBlocked ==
  [][\A h \in Handlers :
       (SubmitStepAt(h, "insert") /\ req[h].song.explicit /\ ~ExplicitAllowed) =>
          queue' = queue /\ reply'.status # 200
    ]_vars

(* C11: a settings update, also one that disallows explicit songs, leaves  *)
(* the tables queue, recently_played, user_cooldowns and user_requests as  *)
(* they are: pending requests are neither removed nor altered.             *)
C11_SettingsFrame ==
  [][emit' = {"settings_updated"} =>
       UNCHANGED <<queue, recently_played, user_cooldowns, user_requests>>
    ]_vars

\* explicit songs have just been disallowed while one is pending
C11_Witness ==
  /\ emit = {"settings_updated"}
  /\ ~ExplicitAllowed
  /\ \E q \in Pending : q.song_id \in ExplicitSongs

(* C12: a request handler takes the admission checks in the order cap,     *)
(* cooldown, live duplicate, recent play, explicit content, and ends at    *)
(* the first that fails with the answer of that check: each check either   *)
(* rejects with its own error or hands over to the next one, and only a    *)
(* request that passed all five reaches the insert.                        *)
C12_ChecksInOrder ==
  [][\A h \in Handlers :
       /\ SubmitStepAt(h, "cap") =>
            IF UserCount(req[h].ip) >= 5
              THEN reply' = Reply(h, 429, "You can only have 5 songs in the queue at once")
              ELSE req'[h].pc = "cooldown"
       /\ SubmitStepAt(h, "cooldown") =>
            IF ~checkCooldown(req[h].ip)
              THEN reply' = Reply(h, 429, "Please wait 30 seconds between requests")
              ELSE req'[h].pc = "inqueue"
       /\ SubmitStepAt(h, "inqueue") =>
            IF InQueue(req[h].song.id)
              THEN reply' = Reply(h, 409, "This song is already in the queue")
              ELSE req'[h].pc = "recent"
       /\ SubmitStepAt(h, "recent") =>
            IF RecentlyPlayed(req[h].song.id)
              THEN reply' = Reply(h, 409, "This song was played recently")
              ELSE IF req[h].song.explicit /\ ~ExplicitAllowed
                     THEN req'[h] = IdleReq /\ reply'.status \notin {0, 200}
                     ELSE req'[h].pc = "insert"
    ]_vars

(* C13: a rejection by the cooldown check tells the requester the          *)
(* remaining wait: 30 s minus the time elapsed since the identity's last   *)
(* accepted request (the last_request of its cooldown record).             *)
C13_ReportsRemainingWait ==
  [][\A h \in Handlers :
       (SubmitStepAt(h, "cooldown") /\ ~checkCooldown(req[h].ip)) =>
          ReportedWait(reply') =
            30 - (now - ParseDate(user_cooldowns[req[h].ip]))
    ]_vars

(* C14: marking played an id that is absent from the queue, or whose row   *)
(* is already played, is answered 404 and changes no table and emits no    *)
(* event (so a second mark of one id adds no recently_played row).         *)
C14_MarkPlayedNotFound ==
  [][(PlayedStepAt("get") /\ ~\E q \in Pending : q.id = adm.id) =>
        /\ reply' = Reply("admin", 404, "Song not found in queue")
        /\ adm' = IdleAdm
        /\ UNCHANGED tables
        /\ emit' = {}
    ]_vars

(* C15: marking a pending request played takes exactly that request out of *)
(* the pending list (one row fewer, the others untouched), and at the      *)
(* moment the mark reports success recently_played holds a row of the      *)
(* request's song.                                                         *)
C15_MarkPlayedMoves ==
  [][/\ \A q \in Pending :
          (PlayedStepAt("update") /\ q.id = adm.id) =>
             /\ Pending' = Pending \ {q}
             /\ Cardinality(Pending') = Cardinality(Pending) - 1
     /\ PlayedStepAt("done") =>
          /\ reply' = Reply("admin", 200, "")
          /\ \E r \in recently_played' : r.song_id = adm.song
    ]_vars

(* C16: every change of the queue table is broadcast: an insert (request   *)
(* or auto-fill), a removal and a clear emit queue_updated in the callback *)
(* of their statement, and the UPDATE of a mark-played is followed by the  *)
(* handler's queue_updated (sent together with now_playing); every change  *)
(* of the settings emits settings_updated.  No broadcast precedes its      *)
(* change: a step that emits queue_updated commits a queue change, clears  *)
(* an empty pending queue, or ends a mark-played whose UPDATE has run.     *)
C16_MutationsBroadcast ==
  /\ [][/\ queue' # queue =>
              \/ "queue_updated" \in emit'
              \/ PlayedStepAt("update") /\ adm'.pc = "rp"
        /\ settings' # settings => emit' = {"settings_updated"}
        /\ "queue_updated" \in emit' =>
              \/ queue' # queue
              \/ Pending' = {}
              \/ adm.pc = "done" /\ ~\E q \in Pending' : q.id = adm.id
       ]_vars
  /\ (adm.pc \in {"rp", "done"}) ~> (emit = {"queue_updated", "now_playing"})

\* a mark-played has changed the queue and has just sent its broadcast
C16_Witness ==
  /\ emit = {"queue_updated", "now_playing"}
  /\ reply = Reply("admin", 200, "")
  /\ \E q \in queue : q.played

C18_QueriesReadOnly ==
  [][/\ tables' # tables => PlayedStepAt("update") \/ PlayedStepAt("rp")
     /\ recently_played \subseteq recently_played'
    ]_vars

(* C19: when a request is answered with success and its new queue id, the  *)
(* queue row, the user_requests row attributing it to the requester and    *)
(* the requester's cooldown record of this request are all stored, so that *)
(* whatever starts after the response reads them.                          *)
C19_AcceptedIsPersisted ==
  [][\A h \in Handlers :
       (SubmitStepAt(h, "insert") /\ reply'.to = h /\ reply'.status = 200) =>
          /\ \E q \in queue' : q.id = reply'.queueId /\ q.song_id = req[h].song.id
          /\ [ip_address |-> req[h].ip, queue_id |-> reply'.queueId] \in user_requests'
          /\ user_cooldowns'[req[h].ip] = toISOString(now)
    ]_vars

(* C20: the song an auto-fill tick inserts has no row in recently_played   *)
(* at the moment of the insert, and the tick's selection can yield every   *)
(* fallback row whose song is absent from recently_played.                 *)
C20_AutoFillAvoidsRecent ==
  [][/\ AutoFillStepAt("insert") => ~RecentlyPlayed(af.song)
     /\ AutoFillStepAt("pick") =>
          \A d \in default_playlist :
            d.song_id \notin af.recent => d \in Eligible(af.recent)
    ]_vars

(* C21: an auto-fill tick that found the pending queue empty and finds no  *)
(* fallback row to select (the playlist is empty, or each of its songs is  *)
(* among the recently played ids the tick read) ends there: no table       *)
(* changes, no statement is issued, no event is emitted, no response or    *)
(* error results, and the timer can fire again.                            *)
C21_AutoFillNothingEligible ==
  /\ [][(AutoFillStepAt("pick") /\ Eligible(af.recent) = {}) =>
           /\ af' = IdleAf
           /\ UNCHANGED <<tables, pending>>
           /\ emit' = {}
           /\ reply' = NoReply
       ]_vars
  /\ [](af = IdleAf => ENABLED AutoFillTick)

\* a tick that found the queue empty is about to select while the only
\* fallback songs are recently played
C21_Witness ==
  /\ af.pc = "pick"
  /\ Pending = {}
  /\ default_playlist # {}
  /\ \A d \in default_playlist : d.song_id \in af.recent /\ RecentlyPlayed(d.song_id)

\* the fallback playlist holds a song that is not recently played
HasEligible == \E d \in default_playlist : ~RecentlyPlayed(d.song_id)

(* C22: with the auto-fill timer firing again and again and its statements *)
(* executed, the pending queue does not stay empty for ever while the      *)
(* fallback playlist keeps a song absent from recently_played (and a queue *)
(* id is left for the insert).                                             *)
C22_EventuallyFilled ==
  []<>~(Pending = {} /\ HasEligible /\ Room(MaxQueueId))

\* a tick is about to insert into an empty pending queue while the
\* playlist holds a song that is not recently played
C22_Witness ==
  /\ af.pc = "insert"
  /\ Pending = {}
  /\ HasEligible
  /\ \E q \in queue : q.played

(* C23: removing an id that no queue row has is answered 404 "Song not     *)
(* found", changes no table and emits no event; removing the id of a       *)
(* queue row deletes exactly that row, leaves every other row and table    *)
(* as it is, and emits queue_updated.                                      *)
C23_RemoveExactlyOne ==
  [][\A id \in 1 .. MaxQueueId :
       RemoveFromQueue(id) =>
         IF \E q \in queue : q.id = id
           THEN /\ queue' = {q \in queue : q.id # id}
                /\ Cardinality(queue') = Cardinality(queue) - 1
                /\ reply' = Reply("admin", 200, "")
                /\ emit' = {"queue_updated"}
                /\ UNCHANGED <<recently_played, user_cooldowns, user_requests,
                               settings, default_playlist, pending>>
           ELSE /\ reply' = Reply("admin", 404, "Song not found")
                /\ UNCHANGED <<tables, pending>>
                /\ emit' = {}
    ]_vars

\* of two queued requests the first has just been removed
C23_Witness ==
  /\ reply = Reply("admin", 200, "")
  /\ emit = {"queue_updated"}
  /\ nextId = 3
  /\ \E q \in Pending : q.id = 2 /\ queue = {q}

(* C24: clearing the queue deletes every pending row, tells the caller how *)
(* many rows it deleted, and leaves the played rows, recently_played and   *)
(* user_cooldowns as they are.                                             *)
C24_ClearReportsCount ==
  [][(ClearQueue /\ Pending # {}) =>
       /\ Pending' = {}
       /\ queue' = {q \in queue : q.played}
       /\ UNCHANGED <<recently_played, user_cooldowns>>
       /\ reply'.status = 200
       /\ ReportedCount(reply') = Cardinality(Pending)
    ]_vars

(* C25: a store error in a statement of a request or of an auto-fill tick  *)
(* ends that operation only: the failed operation leaves the queue as it   *)
(* is and the process keeps running, ready for the next tick and request.  *)
C25_StoreErrorNotFatal ==
  [][(\/ \E h \in Handlers : SubmitFail(h)
      \/ AutoFillFail
      \/ \E st \in pending : ExecPendingFail(st)) =>
        queue' = queue /\ up'
    ]_vars

(* C26: mark-played, remove, clear-pending and update-settings change the  *)
(* queue or the settings only when the caller's request carries the admin  *)
(* authorization.                                                          *)
C26_AdminNeedsAuthorization ==
  [][(/\ \/ PlayedStep
         \/ \E id \in 1..MaxQueueId : RemoveFromQueue(id)
         \/ ClearQueue
         \/ \E e \in BOOLEAN : UpdateSettings(e)
      /\ ~requireAuth(authorization)) =>
        queue' = queue /\ settings' = settings
    ]_vars

\* the check of the request handler that rejects with each kind
CheckOf(kind) ==
  CASE kind = "QuotaExceeded" -> "cap"
    [] kind = "CooldownActive" -> "cooldown"
    [] kind = "DuplicateInQueue" -> "inqueue"
    [] kind = "RecentlyPlayed" -> "recent"

(* C27: the response of a submission rejected for quota, cooldown, live    *)
(* duplicate or recent play differs, in status or error text, from the     *)
(* response of a rejection of every other kind.                            *)
C27_RejectionsDistinguishable ==
  [][\A h \in Handlers, k \in RejectionKinds :
       SubmitStepAt(h, CheckOf(k)) /\ req'[h].pc = "idle" =>
         /\ reply'.to = h
         /\ reply'.status \in 400 .. 499
         /\ \A o \in RejectionKinds \ {k} :
              <<reply'.status, reply'.error>> #
                <<Rejection(o).status, Rejection(o).error>>
    ]_vars

\* a request is rejected for a song played recently, with the status that
\* the duplicate rejection has too
C27_Witness ==
  \E h \in Handlers :
    /\ reply = Rejected(h, "RecentlyPlayed")
    /\ reply.status = Rejection("DuplicateInQueue").status

(* C28: whatever the interleaving of the request handlers of one address,  *)
(* the pending (played = 0) requests attributed to an address are never    *)
(* more than 5.                                                            *)
C28_CapUnderInterleaving ==
  \A ip \in Ips : UserCount(ip) <= MaxUserRequests

(* C29: while POST /api/played/:queueId works on a pending request for a   *)
(* song, between its lookup and the end of its INSERT INTO recently_played,*)
(* the song is pending or has a row in recently_played, so that a request  *)
(* for it in that interval is rejected.                                    *)
C29_PlayedSongStaysBlocked ==
  adm.pc \in {"update", "rp"} =>
    InQueue(adm.song) \/ RecentlyPlayed(adm.song)

(* C30: a submission rejected for quota, cooldown, live duplicate or       *)
(* recent play writes nothing to queue, user_requests or user_cooldowns    *)
(* and emits no event: none of its steps up to and including the rejection *)
(* changes these tables, emits, or issues a statement other than the purge *)
(* of recently_played; so a rejected attempt leaves the address's cooldown *)
(* record as it was.                                                       *)
C30_RejectionChangesNothing ==
  [][\A h \in Handlers :
       (/\ req[h].pc \in {"idle", "cap", "cooldown", "inqueue", "recent"}
        /\ req'[h] # req[h]) =>
          /\ UNCHANGED <<queue, user_requests, user_cooldowns>>
          /\ emit' = {}
          /\ \A st \in pending' \ pending : st.op = "purge"
          /\ \A k \in RejectionKinds :
               reply' = Rejected(h, k) => req'[h] = IdleReq /\ pending' = pending
    ]_vars

\* a request is rejected for the cooldown while the address's record is the
\* one of its last accepted request and no statement is about to replace it
C30_Witness ==
  \E h \in Handlers :
    /\ reply = Rejected(h, "CooldownActive")
    /\ user_cooldowns["ip1"] = toISOString(Noon)
    /\ \A st \in pending : st.op # "cooldown"

(* C31: a queue row whose played flag is set stays in the table: no step   *)
(* (remove, clear, cleanup, auto-fill) deletes it.                         *)
C31_PlayedRowsKept ==
  [][\A q \in queue : q.played => \E r \in queue' : r.id = q.id]_vars

(* C32: the played flag only goes from false to true: a row that is played *)
(* is, for as long as it exists, played after every step, and so is not in *)
(* the pending list again.                                                 *)
C32_PlayedMonotonic ==
  [][\A q \in queue : q.played =>
       \A r \in queue' : r.id = q.id => r.played /\ r \notin Pending'
    ]_vars

\* the UPDATE of a second mark-played has run on a row that was played
\* already
C32_Witness ==
  /\ adm.pc = "rp"
  /\ rpNextId = 2
  /\ \E q \in queue : q.id = adm.id /\ q.played

\* the pending rows that the accepted requests of an address created: the
\* handler names the address in the INSERT INTO user_requests it issues
\* with the row's id, executed or not yet
SubmittedBy(ip) ==
  {q \in Pending :
     \/ \E u \in user_requests : u.ip_address = ip /\ u.queue_id = q.id
     \/ \E st \in pending : st.op = "track" /\ st.ip = ip /\ st.qid = q.id}

(* C33: in every state the count that the cap check reads for an address   *)
(* is the number of pending queue rows that the accepted requests of that  *)
(* address created.                                                        *)
C33_CountIsOwnPending ==
  \A ip \in Ips : UserCount(ip) = Cardinality(SubmittedBy(ip))

(* C34: the insert of an auto-fill tick adds a queue row and nothing else: *)
(* no user_requests row, no user_cooldowns row and no statement that would *)
(* write one, so the count of every address stays what it was.             *)
C34_AutoFillUnattributed ==
  [][AutoFillStepAt("insert") =>
       /\ Cardinality(queue') = Cardinality(queue) + 1
       /\ UNCHANGED <<user_requests, user_cooldowns, pending>>
       /\ \A ip \in Ips : UserCount(ip)' = UserCount(ip)
    ]_vars

\* a tick has just inserted a fallback song: the event without a response
C34_Witness ==
  /\ emit = {"queue_updated"}
  /\ reply = NoReply
  /\ af = IdleAf
  /\ Pending # {}

(* C35: DELETE /api/cooldown from an address removes the cooldown record   *)
(* of that address and nothing else: the records of the other addresses    *)
(* and the queue stay as they are, and the address has no cooldown ahead   *)
(* of its next request: the check passes on the cleared record, and no     *)
(* write of the record by a request accepted before the clear is still to  *)
(* be executed.                                                            *)
C35_ClearCooldownOpensNext ==
  [][\A ip \in Ips :
       ClearCooldown(ip) =>
         /\ \A o \in Ips \ {ip} : user_cooldowns'[o] = user_cooldowns[o]
         /\ queue' = queue
         /\ user_cooldowns'[ip] = NoRow
         /\ checkCooldown(ip)'
         /\ \A st \in pending' : ~(st.op = "cooldown" /\ st.ip = ip)
    ]_vars

(* C36: the settings table holds exactly one row, the row with id 1, in    *)
(* every state; an update rewrites that row and neither adds nor removes   *)
(* one.                                                                    *)
C36_SettingsSingleton ==
  /\ Cardinality(settings) = 1
  /\ \A s \in settings : s.id = 1

\* an update has just replaced the stored value
C36_Witness ==
  /\ emit = {"settings_updated"}
  /\ settings = {[id |-> 1, explicit_allowed |-> FALSE]}

(* C37: the auto-playlist queue never has more than 5 rows, whatever the   *)
(* interleaving of generate calls, and never has two rows of one library   *)
(* song.                                                                   *)
C37_AutoPlaylistAtMostFive ==
  /\ Cardinality(auto_playlist_queue) <= AutoPlaylistSize
  /\ \A a, b \in auto_playlist_queue : a.song_id = b.song_id => a = b

\* no generate call and no removal is in flight
AutoPlaylistAtRest == rem.pc = "idle" /\ \A h \in Handlers : gen[h].pc = "idle"

\* the positions of a table are 1..n, each once
Contiguous(tbl) ==
  /\ \A a, b \in tbl : a.queue_position = b.queue_position => a = b
  /\ {q.queue_position : q \in tbl} = 1 .. Cardinality(tbl)

(* C38: whenever the generate and remove calls made so far have all        *)
(* answered, the queue_position values of the auto-playlist queue are      *)
(* 1..n, each once; and the reorder of a removal keeps the remaining rows  *)
(* in the order they had.                                                  *)
C38_PositionsContiguous ==
  [][/\ AutoPlaylistAtRest' => Contiguous(auto_playlist_queue')
     /\ AutoPlaylistReorder =>
          \A a, b \in auto_playlist_queue, c, d \in auto_playlist_queue' :
            (c.id = a.id /\ d.id = b.id /\ a.queue_position < b.queue_position)
              => c.queue_position < d.queue_position
    ]_vars

(* C39: a DELETE request to /api/auto-playlist/clear on a queue that has   *)
(* rows removes all of them and reports their number in its response.     *)
C39_ClearRemovesAll ==
  [][(AutoPlaylistDelete(ClearSegment) /\ auto_playlist_queue # {}) =>
       /\ auto_playlist_queue' = {}
       /\ counts'.cleared = Cardinality(auto_playlist_queue)
    ]_vars

(* C40: the download queue never has two pending rows with the same title *)
(* and artist, also when one batch names a song twice, and the counts of   *)
(* every bulk response satisfy added + skipped = total.                    *)
C40_BulkNoDuplicates ==
  /\ \A a, b \in download_queue :
       (/\ a.status = "pending" /\ b.status = "pending"
        /\ a.title = b.title /\ a.artist = b.artist) => a = b
  /\ counts.total # -1 => counts.added + counts.skipped = counts.total
====
